---- MODULE Spec2Model ----
(***************************************************************************)
(* Model of src/algorithms/dijkstra/dijkstra.py: the shortest-path engine  *)
(* dijkstra(), the adjacency builder, and the query methods of             *)
(* DijkstraResult.  Python lists are sequences (index i of the code is     *)
(* position i+1 here), dicts over range(n) are functions on 0..n-1.        *)
(***************************************************************************)
EXTENDS Integers, Sequences, FiniteSets, TLC

\* ---- bounds of the model --------------------------------------------------
\* largest matrix size N
MaxN == 3
\* largest finite weight of a matrix entry
MaxW == 3
\* largest number of non-zero entries of a matrix
MaxEdges == 3
\* largest number of rows, and of entries of a row, of a candidate matrix
MaxRows == 2

\* ---- values ---------------------------------------------------------------
\* float('inf'): larger than every sum of finite weights along a simple path
Inf == (MaxN + 1) * (MaxW + 1) + 1
\* Python's None in `previous`
None == -1
\* the "no node" sentinel of the final step (current_node=-1)
NoNode == -1

VARIABLES
    adj_matrix,      \* input: sequence of rows
    source,          \* input: source index
    node_labels,     \* input: [absent, list]: None, or a list of labels
    pc,              \* position of the call: start, loop, neighbors, done, raised
    distances, previous, visited, priority_queue, steps, step_number,
    current_dist, current_node,
    nbr_idx,         \* position of the for loop in adj_list[current_node]
    target, path, current,   \* get_path: argument and locals
    get_path_ret,            \* what get_path returned: [none, list]
    get_distance_ret,        \* what get_distance returned
    first_steps,             \* result.steps of the previous call, <<>> before it
    first_result,            \* result.distances and result.previous of the previous call
    matrix_string,           \* parse_matrix_string: the text, a sequence of characters
    token_rows,              \* the rows of tokens the text was written from
    candidate,               \* validate_matrix: the matrix argument, rows of values
    validate_ret,            \* what validate_matrix returned: [ok, message]
    parse_ret                \* what parse_matrix_string returned: [none, matrix, message]

vars == <<adj_matrix, source, node_labels, pc, distances, previous, visited,
          priority_queue, steps, step_number, current_dist, current_node, nbr_idx,
          target, path, current, get_path_ret, get_distance_ret, first_steps,
          first_result, matrix_string, token_rows, candidate, validate_ret, parse_ret>>

inputs == <<adj_matrix, source, node_labels>>

\* what belongs to the callers of dijkstra()
queries == <<target, path, current, get_path_ret, get_distance_ret>>

\* what belongs to validate_matrix and parse_matrix_string
checks == <<matrix_string, token_rows, candidate, validate_ret, parse_ret>>

outside == <<inputs, queries, first_steps, first_result, checks>>

\* ---- helpers --------------------------------------------------------------
\* range(n)
Range(n) == 0 .. (n - 1)

\* matrix[i][j]
At(matrix, i, j) == matrix[i + 1][j + 1]

\* the larger distance first
TupleGreater(a, b) == a[1] > b[1] \/ (a[1] = b[1] /\ a[2] < b[2])

\* among equal distances the larger node index first
TupleLessIndexDescending(a, b) == a[1] < b[1] \/ (a[1] = b[1] /\ a[2] > b[2])

\* tuple comparison (dist, node) < (dist, node) used by heapq
TupleLess(a, b) == a[1] < b[1] \/ (a[1] = b[1] /\ a[2] < b[2])

\* list with position pos (0-based) set to item
ListSet(heap, pos, item) == [heap EXCEPT ![pos + 1] = item]

\* heapq._siftdown(heap, startpos, pos) carrying newitem
RECURSIVE SiftDownLoop(_, _, _, _)
SiftDownLoop(heap, startpos, pos, newitem) ==
    IF pos > startpos
    THEN LET parentpos == (pos - 1) \div 2
             parent == heap[parentpos + 1]
         IN IF TupleLess(newitem, parent)
            THEN SiftDownLoop(ListSet(heap, pos, parent), startpos, parentpos, newitem)
            ELSE ListSet(heap, pos, newitem)
    ELSE ListSet(heap, pos, newitem)

siftdown(heap, startpos, pos) == SiftDownLoop(heap, startpos, pos, heap[pos + 1])

\* heapq._siftup(heap, pos): bubble the smaller child up to a leaf, then siftdown
RECURSIVE SiftUpLoop(_, _, _, _)
SiftUpLoop(heap, startpos, pos, newitem) ==
    LET endpos == Len(heap)
        leftpos == 2 * pos + 1
        rightpos == leftpos + 1
    IN IF leftpos < endpos
       THEN LET childpos == IF rightpos < endpos
                                /\ ~TupleLess(heap[leftpos + 1], heap[rightpos + 1])
                             THEN rightpos ELSE leftpos
            IN SiftUpLoop(ListSet(heap, pos, heap[childpos + 1]), startpos, childpos, newitem)
       ELSE siftdown(ListSet(heap, pos, newitem), startpos, pos)

siftup(heap, pos) == SiftUpLoop(heap, pos, pos, heap[pos + 1])

\* a push that is lost when the heap already holds an entry
heappush_lost(heap, item) == IF heap # <<>> THEN heap ELSE <<item>>

\* heapq.heappush(heap, item)
heappush(heap, item) == siftdown(Append(heap, item), 0, Len(heap))

\* the last entry of the list dropped instead of the entry returned
heappop_last(heap) == SubSeq(heap, 1, Len(heap) - 1)

\* heappop as a peek: the entry returned stays in the heap
heappop_keep(heap) == heap

\* heapq.heappop(heap): the heap that is left
heappop(heap) ==
    LET lastelt == heap[Len(heap)]
        rest == SubSeq(heap, 1, Len(heap) - 1)
    IN IF rest # <<>> THEN siftup(ListSet(rest, 0, lastelt), 0) ELSE rest

\* heapq.heappop(heap): the item returned
heaptop(heap) == heap[1]

\* ---- adjacency builder ----------------------------------------------------
\* the test of line 78 with the indices swapped
IsEdgeTransposed(matrix, i, j) == i # j /\ At(matrix, j, i) > 0 /\ At(matrix, j, i) # Inf

\* the test of line 78 without `i != j`
IsEdgeAnyDiagonal(matrix, i, j) == At(matrix, i, j) > 0 /\ At(matrix, i, j) # Inf

\* the test of line 78
IsEdge(matrix, i, j) == i # j /\ At(matrix, i, j) > 0 /\ At(matrix, i, j) # Inf

\* the inner loop over j of one row i: neighbours in ascending j
RECURSIVE RowNeighbors(_, _, _)
RowNeighbors(matrix, i, j) ==
    IF j >= Len(matrix) THEN <<>>
    ELSE (IF IsEdge(matrix, i, j) THEN <<(<<j, At(matrix, i, j)>>)>> ELSE <<>>)
         \o RowNeighbors(matrix, i, j + 1)

matrix_to_adjacency_list(matrix) ==
    [i \in Range(Len(matrix)) |-> RowNeighbors(matrix, i, 0)]

\* ---- labels and descriptions ----------------------------------------------
\* get_label of dijkstra(): `node_labels and node < len(node_labels)`
get_label(node) ==
    IF ~node_labels.absent /\ node_labels.list # <<>> /\ node < Len(node_labels.list)
    THEN node_labels.list[node + 1]
    ELSE ToString(node)

\* a description is the sequence of the pieces of its f-string
InitDescription == <<"Initialize: Set distance to source node ", get_label(source),
                     " = 0, all others = infinity">>

VisitDescription(node, dist) ==
    <<"Visit node ", get_label(node), " (distance = ", ToString(dist), ")">>

UpdateDescription(neighbor, old_dist, new_dist, via) ==
    <<"Update distance to ", get_label(neighbor), ": ",
      IF old_dist = Inf THEN "infinity" ELSE ToString(old_dist),
      " -> ", ToString(new_dist), " (via ", get_label(via), ")">>

FinalDescription == <<"Algorithm complete! All reachable nodes have been visited.">>

\* AlgorithmStep(...) with copies of the live state
AlgorithmStep(num, node, vis, dist, prev, queue, desc) ==
    [step_number |-> num, current_node |-> node, visited |-> vis,
     distances |-> dist, previous |-> prev, priority_queue |-> queue,
     description |-> desc]

\* ---- inputs ---------------------------------------------------------------
LabelNames == <<"A", "B", "C", "D", "E", "F", "G", "H">>

LabelList(k) == [i \in 1 .. k |-> LabelNames[i]]

\* node_labels=None
NoLabels == [absent |-> TRUE, list |-> <<>>]

\* the labels that come with a matrix of size n: none with a plain matrix, one per
\* node otherwise
LabelsOf(n, plain) == IF plain THEN NoLabels ELSE [absent |-> FALSE, list |-> LabelList(n)]

\* the off-diagonal positions of an n x n matrix
Slots(n) == {p \in Range(n) \X Range(n) : p[1] # p[2]}

\* the weights of the edges: the lightest and the heaviest
EntryValues == {1, MaxW}

\* validated matrices of size n: the edges E with the weights w; where there is no
\* edge, 0 everywhere (plain), or infinity off the diagonal and MaxW on it
MatrixOf(n, E, w, plain) ==
    [i \in 1 .. n |-> [j \in 1 .. n |->
        IF <<i - 1, j - 1>> \in E THEN w[<<i - 1, j - 1>>]
        ELSE IF plain THEN 0
        ELSE IF i = j THEN MaxW ELSE Inf]]

\* ---- the engine -----------------------------------------------------------
\* no earlier call
NoResult == [distances |-> <<>>, previous |-> <<>>]

\* no text written
NoTokens == [rows |-> <<>>, style |-> "comma"]

\* nothing validated or parsed yet
NoVerdict == [ok |-> FALSE, message |-> <<>>]

NoParse == [none |-> TRUE, matrix |-> <<>>, message |-> <<>>]

NoCheck ==
    /\ matrix_string = <<>>
    /\ token_rows = NoTokens
    /\ candidate = <<>>
    /\ validate_ret = NoVerdict
    /\ parse_ret = NoParse

\* the locals of dijkstra() before the call
NoRun ==
    /\ distances = <<>>
    /\ previous = <<>>
    /\ visited = {}
    /\ priority_queue = <<>>
    /\ steps = <<>>
    /\ step_number = 0
    /\ current_dist = 0
    /\ current_node = NoNode
    /\ nbr_idx = 0

\* get_path returned None
NonePath == [none |-> TRUE, list |-> <<>>]

\* no query made yet
NoQuery ==
    /\ target = 0
    /\ path = <<>>
    /\ current = None
    /\ get_path_ret = NonePath
    /\ get_distance_ret = 0

Init ==
    /\ \E n \in 0 .. MaxN :
         /\ \E E \in {T \in SUBSET Slots(n) : Cardinality(T) <= MaxEdges} :
              \E w \in [E -> EntryValues] : \E plain \in BOOLEAN :
                  /\ adj_matrix = MatrixOf(n, E, w, plain)
                  /\ node_labels = LabelsOf(n, plain)
         /\ source \in -1 .. n
    /\ pc = "start"
    /\ NoRun
    /\ NoQuery
    /\ first_steps = <<>>
    /\ first_result = NoResult
    /\ NoCheck

\* the test of line 102 off by one
OutOfRangeOffByOne(src, n) == src < 0 \/ src > n

\* the source looked up among the labels instead of the rows
OutOfRangeByLabels(src, n) == src < 0 \/ src >= Len(node_labels.list)

\* the test of line 102
OutOfRange(src, n) == src < 0 \/ src >= n

\* visited kept from the call before (a set that outlives the call)
LeftoverVisited == visited

\* visited = set() (line 111)
InitialVisited == {}

\* every distance infinity: `distances[source] = 0` left out
InitialDistancesAllInf(n, src) == [i \in Range(n) |-> Inf]

\* lines 109 and 113: infinity everywhere but 0 at the source
InitialDistances(n, src) == [[i \in Range(n) |-> Inf] EXCEPT ![src] = 0]

\* the earlier steps share the live set, dicts and list instead of owning copies
SharedSteps(trace, vis, dist, prev, queue) ==
    [k \in DOMAIN trace |->
        [trace[k] EXCEPT !.visited = vis, !.distances = dist,
                         !.previous = prev, !.priority_queue = queue]]

\* the steps recorded so far once the live state has become (vis, dist, prev, queue):
\* each step owns what visited.copy(), distances.copy(), previous.copy() and
\* list(priority_queue) returned (lines 129-132, 153-156, 178-181)
KeptSteps(trace, vis, dist, prev, queue) == trace

\* lines 100-134: range check, initialization, initial step
Call ==
    /\ pc = "start"
    /\ LET n == Len(adj_matrix) IN
       IF OutOfRange(source, n)
       THEN /\ pc' = "raised"
            /\ UNCHANGED <<distances, previous, visited, priority_queue, steps,
                           step_number, current_dist, current_node, nbr_idx>>
       ELSE LET dist0 == InitialDistances(n, source)
                prev0 == [i \in Range(n) |-> None]
                queue0 == <<(<<0, source>>)>>
            IN /\ distances' = dist0
               /\ previous' = prev0
               /\ visited' = InitialVisited
               /\ priority_queue' = queue0
               /\ step_number' = 0
               /\ steps' = <<AlgorithmStep(0, source, InitialVisited, dist0, prev0, queue0,
                                           InitDescription)>>
               /\ pc' = "loop"
               /\ UNCHANGED <<current_dist, current_node, nbr_idx>>
    /\ UNCHANGED outside

\* where the for loop of line 161 goes after position idx of node's neighbours
AfterNeighbor(node, idx) ==
    IF idx > Len(matrix_to_adjacency_list(adj_matrix)[node]) THEN "loop" ELSE "neighbors"

\* no check for stale duplicates
IsStaleNever(node) == FALSE

\* `current_node in visited` (line 143): the popped entry is a stale duplicate
IsStale(node) == node \in visited

\* the visited set holding the last visited node only
OnlyVisited(vis, node) == {node}

\* visited.add(current_node) (line 147)
AddVisited(vis, node) == vis \cup {node}

\* no run numbers a step this high: a run relaxes each edge at most once, pops at
\* most one entry for the source and one per relaxation, and adds the final step
StepCap == 2 * MaxEdges + 3

\* lines 136-158: one pop; a stale entry is skipped, otherwise the node is visited
Pop ==
    /\ pc = "loop"
    /\ priority_queue # <<>>
    /\ step_number < StepCap
    /\ LET top == heaptop(priority_queue)
           queue1 == heappop(priority_queue)
       IN /\ step_number' = step_number + 1
          /\ current_dist' = top[1]
          /\ current_node' = top[2]
          /\ priority_queue' = queue1
          /\ IF IsStale(top[2])
             THEN /\ pc' = "loop"
                  /\ steps' = KeptSteps(steps, visited, distances, previous, queue1)
                  /\ UNCHANGED <<visited, nbr_idx>>
             ELSE /\ visited' = AddVisited(visited, top[2])
                  /\ steps' = Append(
                        KeptSteps(steps, AddVisited(visited, top[2]), distances, previous,
                                  queue1),
                        AlgorithmStep(step_number + 1, top[2], AddVisited(visited, top[2]),
                                      distances, previous, queue1,
                                      VisitDescription(top[2], top[1])))
                  /\ nbr_idx' = 1
                  /\ pc' = AfterNeighbor(top[2], 1)
    /\ UNCHANGED <<outside, distances, previous>>

\* the predecessor kept from the first relaxation of a node
SetPreviousOnce(prev, neighbor, node) ==
    IF prev[neighbor] = None THEN [prev EXCEPT ![neighbor] = node] ELSE prev

\* previous[current_node] = neighbor
SetPreviousSwapped(prev, neighbor, node) == [prev EXCEPT ![node] = neighbor]

\* previous[neighbor] = neighbor
SetPreviousSelf(prev, neighbor, node) == [prev EXCEPT ![neighbor] = neighbor]

\* previous[neighbor] = current_node (line 170)
SetPrevious(prev, neighbor, node) == [prev EXCEPT ![neighbor] = node]

\* new_dist = weight: the distance of the node the edge leaves is left out
NewDistEdgeOnly(node, weight) == weight

\* new_dist one more than the sum
NewDistOffByOne(node, weight) == distances[node] + weight + 1

\* new_dist = distances[current_node] - weight
NewDistSubtract(node, weight) == distances[node] - weight

\* new_dist = distances[current_node] + weight (line 165)
NewDist(node, weight) == distances[node] + weight

\* `new_dist < distances[neighbor]` (line 167)
IsShorter(new_dist, old_dist) == new_dist < old_dist

\* lines 161-183: one iteration of the loop over the neighbours of current_node
Explore ==
    /\ pc = "neighbors"
    /\ LET pair == matrix_to_adjacency_list(adj_matrix)[current_node][nbr_idx]
           neighbor == pair[1]
           weight == pair[2]
           new_dist == NewDist(current_node, weight)
       IN /\ IF neighbor \notin visited /\ IsShorter(new_dist, distances[neighbor])
             THEN LET dist1 == [distances EXCEPT ![neighbor] = new_dist]
                      prev1 == SetPrevious(previous, neighbor, current_node)
                      queue1 == heappush(priority_queue, <<new_dist, neighbor>>)
                  IN /\ distances' = dist1
                     /\ previous' = prev1
                     /\ priority_queue' = queue1
                     /\ step_number' = step_number + 1
                     /\ steps' = Append(
                           KeptSteps(steps, visited, dist1, prev1, queue1),
                           AlgorithmStep(step_number + 1, current_node, visited,
                                         dist1, prev1, queue1,
                                         UpdateDescription(neighbor, distances[neighbor],
                                                           new_dist, current_node)))
             ELSE UNCHANGED <<distances, previous, priority_queue, step_number, steps>>
          /\ nbr_idx' = nbr_idx + 1
          /\ pc' = AfterNeighbor(current_node, nbr_idx + 1)
    /\ UNCHANGED <<outside, visited, current_dist, current_node>>

\* the loop left while entries are still queued
FinishEarly ==
    /\ pc = "loop"
    /\ step_number' = step_number + 1
    /\ steps' = Append(steps,
          AlgorithmStep(step_number + 1, NoNode, visited, distances, previous, <<>>,
                        FinalDescription))
    /\ pc' = "done"
    /\ UNCHANGED <<outside, distances, previous, visited, priority_queue,
                   current_dist, current_node, nbr_idx>>

\* lines 185-202: the loop ends on an empty queue; final step and result
Finish ==
    /\ pc = "loop"
    /\ priority_queue = <<>>
    /\ step_number' = step_number + 1
    /\ steps' = Append(steps,
          AlgorithmStep(step_number + 1, NoNode, visited, distances, previous, <<>>,
                        FinalDescription))
    /\ pc' = "done"
    /\ UNCHANGED <<outside, distances, previous, visited, priority_queue,
                   current_dist, current_node, nbr_idx>>

Next == Call \/ Pop \/ Explore \/ Finish

Spec == Init /\ [][Next]_vars

\* the calls on plain matrices
FairInit == Init /\ node_labels = NoLabels

\* the call runs to its end: the interpreter takes the next step while there is one
FairSpec == FairInit /\ [][Next]_vars /\ WF_vars(Next)

\* ---- calls with label lists of any length ----------------------------------
\* node_labels: None, or a list of 0 .. n+1 labels, with a plain matrix and source 0
LabelInit ==
    /\ \E n \in 1 .. MaxN :
         /\ \E E \in {T \in SUBSET Slots(n) : Cardinality(T) <= MaxEdges} :
              \E w \in [E -> EntryValues] : adj_matrix = MatrixOf(n, E, w, TRUE)
         /\ node_labels \in {NoLabels}
                \cup {[absent |-> FALSE, list |-> LabelList(k)] : k \in 0 .. n + 1}
    /\ source = 0
    /\ pc = "start"
    /\ NoRun
    /\ NoQuery
    /\ first_steps = <<>>
    /\ first_result = NoResult
    /\ NoCheck

LabelSpec == LabelInit /\ [][Next]_vars

\* ---- DijkstraResult ------------------------------------------------------
engine == <<pc, distances, previous, visited, priority_queue, steps, step_number,
            current_dist, current_node, nbr_idx>>

\* longest list get_path is followed to; a chain without a cycle is shorter
PathCap == 2 * MaxN + 2

\* self.previous.get(current)
PreviousGet(node) == IF node \in DOMAIN previous THEN previous[node] ELSE None

\* path.reverse()
RECURSIVE Reverse(_)
Reverse(list) ==
    IF list = <<>> THEN <<>> ELSE Append(Reverse(Tail(list)), Head(list))

\* lines 45-49: the guard of get_path and the start of the walk
GetPathCall ==
    /\ pc = "done"
    /\ \E t \in -1 .. Len(adj_matrix) :
         /\ target' = t
         /\ IF t \notin DOMAIN distances \/ distances[t] = Inf
            THEN /\ get_path_ret' = NonePath
                 /\ pc' = "returned"
                 /\ UNCHANGED <<path, current>>
            ELSE /\ path' = <<>>
                 /\ current' = t
                 /\ pc' = "walk"
                 /\ UNCHANGED get_path_ret
    /\ UNCHANGED <<inputs, first_steps, first_result, checks, get_distance_ret, distances, previous, visited,
                   priority_queue, steps, step_number, current_dist, current_node, nbr_idx>>

\* lines 50-52: one iteration of the walk along previous
GetPathLoop ==
    /\ pc = "walk"
    /\ current # None
    /\ path' = IF Len(path) < PathCap THEN Append(path, current) ELSE path
    /\ current' = PreviousGet(current)
    /\ UNCHANGED <<inputs, first_steps, first_result, checks, engine, target, get_path_ret, get_distance_ret>>

\* lines 54-55: the walk reached None
GetPathReturn ==
    /\ pc = "walk"
    /\ current = None
    /\ get_path_ret' = [none |-> FALSE, list |-> Reverse(path)]
    /\ pc' = "returned"
    /\ UNCHANGED <<inputs, first_steps, first_result, checks, distances, previous, visited, priority_queue,
                   steps, step_number, current_dist, current_node, nbr_idx,
                   target, path, current, get_distance_ret>>

\* self.distances.get(target, 0)
get_distance_zero(t) == IF t \in DOMAIN distances THEN distances[t] ELSE 0

\* self.distances.get(target, float('inf'))
get_distance(t) == IF t \in DOMAIN distances THEN distances[t] ELSE Inf

\* line 59, called for the target get_path was called for (app.py lines 489-490)
GetDistance ==
    /\ pc = "returned"
    /\ get_distance_ret' = get_distance(target)
    /\ pc' = "end"
    /\ UNCHANGED <<inputs, first_steps, first_result, checks, distances, previous, visited, priority_queue,
                   steps, step_number, current_dist, current_node, nbr_idx,
                   target, path, current, get_path_ret>>

QueryNext == Next \/ GetPathCall \/ GetPathLoop \/ GetPathReturn \/ GetDistance

\* a run of the engine followed by the queries of one target
QueryInit == Init

QuerySpec == QueryInit /\ [][QueryNext]_vars

\* ---- get_path on any DijkstraResult ----------------------------------------
\* DijkstraResult is a plain dataclass: a caller can build one over any two dicts;
\* here over maps in which a node may lead back to itself in two or more hops
ZeroMatrix(n) == [i \in 1 .. n |-> [j \in 1 .. n |-> 0]]

PathInit ==
    /\ \E n \in 1 .. MaxN :
         /\ adj_matrix = ZeroMatrix(n)
         /\ distances \in [Range(n) -> {0, 1, Inf}]
         /\ previous \in {f \in [Range(n) -> Range(n + 1) \cup {None}] :
                             \A v \in Range(n) : f[v] # v}
    /\ source = 0
    /\ node_labels = NoLabels
    /\ pc = "done"
    /\ visited = {}
    /\ priority_queue = <<>>
    /\ steps = <<>>
    /\ step_number = 0
    /\ current_dist = 0
    /\ current_node = NoNode
    /\ nbr_idx = 0
    /\ NoQuery
    /\ first_steps = <<>>
    /\ first_result = NoResult
    /\ NoCheck

PathNext == GetPathCall \/ GetPathLoop \/ GetPathReturn \/ GetDistance

PathSpec == PathInit /\ [][PathNext]_vars

\* the walk goes on while `current is not None`
PathFairSpec == PathSpec /\ WF_vars(PathNext)

\* ---- a second call on the same input -------------------------------------
\* the caller keeps result.steps and calls dijkstra() again with the same arguments;
\* what the first call left behind is still there when the second starts
Rerun ==
    /\ pc = "done"
    /\ first_steps = <<>>
    /\ first_steps' = steps
    /\ first_result' = [distances |-> distances, previous |-> previous]
    /\ pc' = "start"
    /\ UNCHANGED <<inputs, queries, checks, distances, previous, visited, priority_queue,
                   steps, step_number, current_dist, current_node, nbr_idx>>

RerunNext == Next \/ Rerun

RerunSpec == Init /\ [][RerunNext]_vars

\* ---- validate_matrix ------------------------------------------------------
\* a value of the matrix: an int, a float (Inf for float('inf')) or a str
IntValue(v) == [type |-> "int", v |-> v]

FloatValue(v) == [type |-> "float", v |-> v]

StrValue == [type |-> "str", v |-> 0]

\* f"{val}" as the pieces it shows
Repr(val) ==
    IF val.type = "str" THEN <<"x">>
    ELSE IF val.v = Inf THEN <<"inf">>
    ELSE IF val.type = "float" THEN <<ToString(val.v), ".0">>
    ELSE <<ToString(val.v)>>

\* the returns of validate_matrix
Failure(msg) == [ok |-> FALSE, message |-> msg]

Valid == [ok |-> TRUE, message |-> <<"Valid">>]

MatrixIsEmpty == Failure(<<"Matrix is empty">>)

RowLength(i, len, n) ==
    Failure(<<"Row ", ToString(i), " has ", ToString(len), " elements, expected ",
              ToString(n)>>)

InvalidValue(i, j, val) ==
    Failure(<<"Invalid value at [", ToString(i), "][", ToString(j), "]: ">> \o Repr(val))

NegativeWeight(i, j, val) ==
    Failure(<<"Negative weight at [", ToString(i), "][", ToString(j), "]: ">>
            \o Repr(val) \o <<" (Dijkstra requires non-negative weights)">>)

\* line 221: not isinstance(val, (int, float))
NotNumeric(val) == val.type \notin {"int", "float"}

\* infinity taken for a negative weight
IsNegativeOrInf(val) == val.v < 0 \/ val.v = Inf

\* line 223: val < 0
IsNegative(val) == val.v < 0

\* lines 220-225: the entries of row i from column j on
RECURSIVE CheckEntries(_, _, _)
CheckEntries(row, i, j) ==
    IF j >= Len(row) THEN Valid
    ELSE IF NotNumeric(row[j + 1]) THEN InvalidValue(i, j, row[j + 1])
    ELSE IF IsNegative(row[j + 1]) THEN NegativeWeight(i, j, row[j + 1])
    ELSE CheckEntries(row, i, j + 1)

\* the entries of a row looked at before its length
CheckRowEntriesFirst(matrix, i) ==
    LET r == CheckEntries(matrix[i + 1], i, 0) IN
    IF ~r.ok THEN r
    ELSE IF Len(matrix[i + 1]) # Len(matrix)
         THEN RowLength(i, Len(matrix[i + 1]), Len(matrix))
         ELSE Valid

\* lines 217-225: one round of the loop over the rows
CheckRow(matrix, i) ==
    IF Len(matrix[i + 1]) # Len(matrix)
    THEN RowLength(i, Len(matrix[i + 1]), Len(matrix))
    ELSE CheckEntries(matrix[i + 1], i, 0)

\* lines 216-227: the loop over the rows from row i on
RECURSIVE CheckRows(_, _)
CheckRows(matrix, i) ==
    IF i >= Len(matrix) THEN Valid
    ELSE LET r == CheckRow(matrix, i) IN
         IF ~r.ok THEN r ELSE CheckRows(matrix, i + 1)

validate_matrix(matrix) ==
    IF matrix = <<>> THEN MatrixIsEmpty ELSE CheckRows(matrix, 0)

\* the values a candidate matrix is made of
CandidateValues == {IntValue(-1), IntValue(0), FloatValue(Inf), StrValue}

\* rows of 0 .. MaxRows values
CandidateRows == UNION {[1 .. k -> CandidateValues] : k \in 0 .. MaxRows}

\* a candidate matrix of 0 .. MaxRows rows, square or not
ValidateInit ==
    /\ candidate \in UNION {[1 .. n -> CandidateRows] : n \in 0 .. MaxRows}
    /\ matrix_string = <<>>
    /\ token_rows = NoTokens
    /\ validate_ret = NoVerdict
    /\ parse_ret = NoParse
    /\ adj_matrix = <<>>
    /\ source = 0
    /\ node_labels = NoLabels
    /\ pc = "validate"
    /\ NoRun
    /\ NoQuery
    /\ first_steps = <<>>
    /\ first_result = NoResult

\* the call validate_matrix(candidate)
Validate ==
    /\ pc = "validate"
    /\ validate_ret' = validate_matrix(candidate)
    /\ pc' = "validated"
    /\ UNCHANGED <<inputs, queries, first_steps, first_result, matrix_string, token_rows, candidate,
                   parse_ret, distances, previous, visited, priority_queue, steps,
                   step_number, current_dist, current_node, nbr_idx>>

ValidateNext == Validate

ValidateSpec == ValidateInit /\ [][ValidateNext]_vars

\* ---- parse_matrix_string --------------------------------------------------
\* a text is a sequence of characters, each a string of one character; a
\* character outside ASCII goes by its code point: "U+221E" is the infinity glyph
Glyph == "U+221E"

\* the third literal of line 258 as the file holds it: the three characters
\* U+00E2 U+02C6 U+017E, not the infinity glyph
Line258Literal == <<"U+00E2", "U+02C6", "U+017E">>

\* str.isspace
IsSpace(c) == c \in {" ", "\n", "\t"}

RECURSIVE lstrip(_)
lstrip(s) == IF s # <<>> /\ IsSpace(s[1]) THEN lstrip(Tail(s)) ELSE s

RECURSIVE rstrip(_)
rstrip(s) ==
    IF s # <<>> /\ IsSpace(s[Len(s)]) THEN rstrip(SubSeq(s, 1, Len(s) - 1)) ELSE s

\* str.strip()
strip(s) == rstrip(lstrip(s))

\* str.split(sep): the pieces between the separators, empty ones included
RECURSIVE SplitLoop(_, _, _)
SplitLoop(s, sep, piece) ==
    IF s = <<>> THEN <<piece>>
    ELSE IF s[1] = sep THEN <<piece>> \o SplitLoop(Tail(s), sep, <<>>)
    ELSE SplitLoop(Tail(s), sep, Append(piece, s[1]))

split(s, sep) == SplitLoop(s, sep, <<>>)

\* str.split(): the runs of characters between whitespace
RECURSIVE SplitSpaceLoop(_, _)
SplitSpaceLoop(s, piece) ==
    LET done == IF piece = <<>> THEN <<>> ELSE <<piece>> IN
    IF s = <<>> THEN done
    ELSE IF IsSpace(s[1]) THEN done \o SplitSpaceLoop(Tail(s), <<>>)
    ELSE SplitSpaceLoop(Tail(s), Append(piece, s[1]))

split_space(s) == SplitSpaceLoop(s, <<>>)

\* the letters of the tokens, in both cases
UpperLetters == <<"I", "N", "F", "T", "Y", "X">>

LowerLetters == <<"i", "n", "f", "t", "y", "x">>

LowerChar(c) ==
    IF \E k \in DOMAIN UpperLetters : UpperLetters[k] = c
    THEN LowerLetters[CHOOSE k \in DOMAIN UpperLetters : UpperLetters[k] = c]
    ELSE c

UpperChar(c) ==
    IF \E k \in DOMAIN LowerLetters : LowerLetters[k] = c
    THEN UpperLetters[CHOOSE k \in DOMAIN LowerLetters : LowerLetters[k] = c]
    ELSE c

\* str.lower()
lower(s) == [k \in DOMAIN s |-> LowerChar(s[k])]

DigitChars == <<"0", "1", "2", "3", "4", "5", "6", "7", "8", "9">>

IsDigit(c) == \E k \in DOMAIN DigitChars : DigitChars[k] = c

DigitValue(c) == (CHOOSE k \in DOMAIN DigitChars : DigitChars[k] = c) - 1

RECURSIVE DigitsValue(_, _)
DigitsValue(s, acc) ==
    IF s = <<>> THEN acc ELSE DigitsValue(Tail(s), 10 * acc + DigitValue(s[1]))

\* float(v) raised ValueError
ValueError == [ok |-> FALSE, v |-> 0]

\* float(v) of an unsigned token: decimal digits, or inf / infinity in any case
UnsignedFloat(s) ==
    IF s = <<>> THEN ValueError
    ELSE IF \A k \in DOMAIN s : IsDigit(s[k]) THEN [ok |-> TRUE, v |-> DigitsValue(s, 0)]
    ELSE IF lower(s) \in {<<"i", "n", "f">>, <<"i", "n", "f", "i", "n", "i", "t", "y">>}
         THEN [ok |-> TRUE, v |-> Inf]
    ELSE ValueError

\* float(v) with the sign dropped
float_unsigned(s) ==
    LET t == strip(s) IN
    IF t # <<>> /\ t[1] \in {"-", "+"} THEN UnsignedFloat(Tail(t)) ELSE UnsignedFloat(t)

\* float(v)
float(s) ==
    LET t == strip(s) IN
    IF t # <<>> /\ t[1] = "-"
    THEN LET r == UnsignedFloat(Tail(t)) IN [ok |-> r.ok, v |-> 0 - r.v]
    ELSE IF t # <<>> /\ t[1] = "+" THEN UnsignedFloat(Tail(t))
    ELSE UnsignedFloat(t)

\* line 258: the tokens taken for infinity before float() is tried
InfinityTokens ==
    {<<"i", "n", "f">>, <<"i", "n", "f", "i", "n", "i", "t", "y">>, Line258Literal}

\* lines 257-263: one token
ParseValue(v) ==
    IF lower(v) \in InfinityTokens THEN [ok |-> TRUE, v |-> Inf] ELSE float(v)

\* the non-blank members of a list, stripped
NonBlank(s) == strip(s) # <<>>

Stripped(list) == [k \in DOMAIN list |-> strip(list[k])]

\* line 242
Lines(text) == Stripped(SelectSeq(split(strip(text), "\n"), NonBlank))

\* lines 250-253
Values(line) ==
    IF \E k \in DOMAIN line : line[k] = ","
    THEN Stripped(SelectSeq(split(line, ","), NonBlank))
    ELSE split_space(line)

\* the returns of parse_matrix_string
NoMatrix(msg) == [none |-> TRUE, matrix |-> <<>>, message |-> msg]

Success(matrix) == [none |-> FALSE, matrix |-> matrix, message |-> <<"Success">>]

InvalidNumber(i, j, v) ==
    <<"Invalid number at row ", ToString(i + 1), ", column ", ToString(j + 1), ": '">>
        \o v \o <<"'">>

NotSquare(i, len, n) ==
    <<"Matrix is not square: row ", ToString(i + 1), " has ", ToString(len),
      " elements, expected ", ToString(n)>>

\* lines 255-263: the tokens of line i from token j on, after the values of `row`
RECURSIVE ParseRow(_, _, _, _)
ParseRow(values, i, j, row) ==
    IF j >= Len(values) THEN [ok |-> TRUE, row |-> row, message |-> <<>>]
    ELSE LET r == ParseValue(values[j + 1]) IN
         IF ~r.ok THEN [ok |-> FALSE, row |-> <<>>, message |-> InvalidNumber(i, j, values[j + 1])]
         ELSE ParseRow(values, i, j + 1, Append(row, FloatValue(r.v)))

\* lines 247-265: the lines from line i on, after the rows of `matrix`
RECURSIVE ParseRows(_, _, _)
ParseRows(lines, i, matrix) ==
    IF i >= Len(lines) THEN [ok |-> TRUE, matrix |-> matrix, message |-> <<>>]
    ELSE LET r == ParseRow(Values(lines[i + 1]), i, 0, <<>>) IN
         IF ~r.ok THEN [ok |-> FALSE, matrix |-> <<>>, message |-> r.message]
         ELSE ParseRows(lines, i + 1, Append(matrix, r.row))

\* the parser without a square check of its own
SquareCheckLeftOut(matrix, i) == [ok |-> TRUE, message |-> <<>>]

\* lines 268-271: the rows from row i on
RECURSIVE SquareCheck(_, _)
SquareCheck(matrix, i) ==
    IF i >= Len(matrix) THEN [ok |-> TRUE, message |-> <<>>]
    ELSE IF Len(matrix[i + 1]) # Len(matrix)
         THEN [ok |-> FALSE, message |-> NotSquare(i, Len(matrix[i + 1]), Len(matrix))]
         ELSE SquareCheck(matrix, i + 1)

parse_matrix_string(matrix_str) ==
    LET lines == Lines(matrix_str) IN
    IF lines = <<>> THEN NoMatrix(<<"No data provided">>)
    ELSE LET parsed == ParseRows(lines, 0, <<>>) IN
         IF ~parsed.ok THEN NoMatrix(parsed.message)
         ELSE LET square == SquareCheck(parsed.matrix, 0) IN
              IF ~square.ok THEN NoMatrix(square.message)
              ELSE LET checked == validate_matrix(parsed.matrix) IN
                   IF ~checked.ok THEN NoMatrix(checked.message)
                   ELSE Success(parsed.matrix)

\* ---- the texts that are parsed ---------------------------------------------
\* str(n) of a natural number
RECURSIVE Decimal(_)
Decimal(n) ==
    IF n < 10 THEN <<DigitChars[n + 1]>>
    ELSE Decimal(n \div 10) \o <<DigitChars[(n % 10) + 1]>>

\* a token as written, with what its writer means by it
NumberToken(n) == [chars |-> Decimal(n), kind |-> "number", v |-> n]

NegativeToken(n) == [chars |-> <<"-">> \o Decimal(n), kind |-> "number", v |-> 0 - n]

\* a word for infinity with the letters at the places of `caps` in upper case
WordToken(word, caps) ==
    [chars |-> [k \in DOMAIN word |-> IF k \in caps THEN UpperChar(word[k]) ELSE word[k]],
     kind |-> "word", v |-> Inf]

GlyphToken == [chars |-> <<Glyph>>, kind |-> "glyph", v |-> Inf]

JunkToken == [chars |-> <<"x">>, kind |-> "junk", v |-> 0]

\* the tokens that may stand in for one entry: inf in every case, infinity in
\* lower case, capitalized and upper case, the glyph, 0, a number of two digits
\* and a token that is no number
OddTokens ==
    {WordToken(<<"i", "n", "f">>, caps) : caps \in SUBSET (1 .. 3)}
        \cup {WordToken(<<"i", "n", "f", "i", "n", "i", "t", "y">>, caps) :
                 caps \in {{}, {1}, 1 .. 8}}
        \cup {GlyphToken, JunkToken, NumberToken(0), NumberToken(10)}

\* the places of the entries of rows of the lengths `lens`, rows and columns from 0
Places(lens) == {p \in Range(Len(lens)) \X Range(MaxRows) : p[2] < lens[p[1] + 1]}

\* place p is place q or comes after it in row-major order
AtOrAfter(p, q) == p[1] > q[1] \/ (p[1] = q[1] /\ p[2] >= q[2])

NoPlace == <<-1, -1>>

\* rows of the lengths `lens`: entry <<i, j>> is the number i * MaxRows + j + 1,
\* negated from place neg_from on, and the token odd at place odd_at
TokenRows(lens, neg_from, odd_at, odd) ==
    [r \in 1 .. Len(lens) |-> [c \in 1 .. lens[r] |->
        IF <<r - 1, c - 1>> = odd_at THEN odd
        ELSE IF neg_from # NoPlace /\ AtOrAfter(<<r - 1, c - 1>>, neg_from)
             THEN NegativeToken((r - 1) * MaxRows + c)
             ELSE NumberToken((r - 1) * MaxRows + c)]]

\* the tokens of a row joined by sep
RECURSIVE JoinTokens(_, _)
JoinTokens(row, sep) ==
    IF row = <<>> THEN <<>>
    ELSE IF Len(row) = 1 THEN row[1].chars
    ELSE row[1].chars \o sep \o JoinTokens(Tail(row), sep)

\* a row as a line: a row without tokens is written as a lone comma
LineOf(row, sep) == IF row = <<>> THEN <<",">> ELSE JoinTokens(row, sep)

RECURSIVE JoinLines(_, _, _)
JoinLines(rows, sep, newline) ==
    IF rows = <<>> THEN <<>>
    ELSE IF Len(rows) = 1 THEN LineOf(rows[1], sep)
    ELSE LineOf(rows[1], sep) \o newline \o JoinLines(Tail(rows), sep, newline)

\* the ways of writing the rows: "1,2\n3,4", "1 2\n3 4" and, with blanks around
\* the separators, blank lines and a tab, " \n 1, 2\n \n3, 4\t\n"
Styles == {"comma", "space", "padded"}

TextOf(rows, style) ==
    IF style = "comma" THEN JoinLines(rows, <<",">>, <<"\n">>)
    ELSE IF style = "space" THEN JoinLines(rows, <<" ">>, <<"\n">>)
    ELSE <<" ", "\n", " ">> \o JoinLines(rows, <<",", " ">>, <<"\n", " ", "\n">>)
             \o <<"\t", "\n">>

\* a text of 0 .. MaxRows rows of 0 .. MaxRows tokens (1 .. MaxRows where the
\* tokens are separated by blanks), at most one of them an odd token
ParseInit ==
    /\ \E n \in 0 .. MaxRows, style \in Styles :
         \E lens \in [1 .. n -> (IF style = "space" THEN 1 ELSE 0) .. MaxRows] :
           \E neg_from \in Places(lens) \cup {NoPlace}, odd_at \in Places(lens) \cup {NoPlace} :
             \E odd \in (IF odd_at = NoPlace THEN {JunkToken} ELSE OddTokens) :
               /\ token_rows = [rows |-> TokenRows(lens, neg_from, odd_at, odd),
                                style |-> style]
               /\ matrix_string = TextOf(TokenRows(lens, neg_from, odd_at, odd), style)
    /\ candidate = <<>>
    /\ validate_ret = NoVerdict
    /\ parse_ret = NoParse
    /\ adj_matrix = <<>>
    /\ source = 0
    /\ node_labels = NoLabels
    /\ pc = "parse"
    /\ NoRun
    /\ NoQuery
    /\ first_steps = <<>>
    /\ first_result = NoResult

\* the call parse_matrix_string(matrix_string)
Parse ==
    /\ pc = "parse"
    /\ parse_ret' = parse_matrix_string(matrix_string)
    /\ pc' = "parsed"
    /\ UNCHANGED <<inputs, queries, first_steps, first_result, matrix_string, token_rows, candidate,
                   validate_ret, distances, previous, visited, priority_queue, steps,
                   step_number, current_dist, current_node, nbr_idx>>

ParseNext == Parse

ParseSpec == ParseInit /\ [][ParseNext]_vars

\* ---- a second call with other labels ---------------------------------------
\* the label lists a caller may pass for n nodes: none, or 0 .. n + 1 labels
LabelChoices(n) ==
    {NoLabels} \cup {[absent |-> FALSE, list |-> LabelList(k)] : k \in 0 .. n + 1}

\* a plain matrix, source 0, and no labels or one label per node
RelabelInit ==
    /\ \E n \in 1 .. MaxN :
         /\ \E E \in {T \in SUBSET Slots(n) : Cardinality(T) <= MaxEdges} :
              \E w \in [E -> EntryValues] : adj_matrix = MatrixOf(n, E, w, TRUE)
         /\ node_labels \in {NoLabels, [absent |-> FALSE, list |-> LabelList(n)]}
    /\ source = 0
    /\ pc = "start"
    /\ NoRun
    /\ NoQuery
    /\ first_steps = <<>>
    /\ first_result = NoResult
    /\ NoCheck

\* the caller keeps the result and calls dijkstra() again with the same matrix
\* and source and another node_labels
Relabel ==
    /\ pc = "done"
    /\ first_steps = <<>>
    /\ first_steps' = steps
    /\ first_result' = [distances |-> distances, previous |-> previous]
    /\ node_labels' \in LabelChoices(Len(adj_matrix)) \ {node_labels}
    /\ pc' = "start"
    /\ UNCHANGED <<adj_matrix, source, queries, checks, distances, previous, visited,
                   priority_queue, steps, step_number, current_dist, current_node,
                   nbr_idx>>

RelabelNext == Next \/ Relabel

RelabelSpec == RelabelInit /\ [][RelabelNext]_vars

\* ---- calls in which equal distances meet in the queue -----------------------
\* weights that let a path of two edges weigh as much as one edge
TieValues == 1 .. 2

\* a plain matrix of MaxN + 1 nodes with MaxEdges edges of these weights, source 0:
\* the smallest in which a node is queued after a node of a larger index at the
\* same distance
TieInit ==
    /\ \E E \in {T \in SUBSET Slots(MaxN + 1) : Cardinality(T) = MaxEdges} :
         \E w \in [E -> TieValues] : adj_matrix = MatrixOf(MaxN + 1, E, w, TRUE)
    /\ node_labels = NoLabels
    /\ source = 0
    /\ pc = "start"
    /\ NoRun
    /\ NoQuery
    /\ first_steps = <<>>
    /\ first_result = NoResult
    /\ NoCheck

TieSpec == TieInit /\ [][Next]_vars

\* ---- what the claims speak of ---------------------------------------------
\* number of nodes
N == Len(adj_matrix)

\* an edge i->j of the graph: i # j and 0 < matrix[i][j] < infinity
RealEdge(i, j) == i # j /\ 0 < At(adj_matrix, i, j) /\ At(adj_matrix, i, j) < Inf

Weight(i, j) == At(adj_matrix, i, j)

SetMin(S) == CHOOSE x \in S : \A y \in S : x <= y

\* for every node v, the least total weight of a directed path of at most k
\* edges from source to v (infinity when there is none)
RECURSIVE WithinHops(_)
WithinHops(k) ==
    IF k = 0 THEN [v \in Range(N) |-> IF v = source THEN 0 ELSE Inf]
    ELSE LET D == WithinHops(k - 1)
         IN [v \in Range(N) |->
                SetMin({D[v]} \cup {D[u] + Weight(u, v) :
                                      u \in {x \in Range(N) : RealEdge(x, v) /\ D[x] < Inf}})]

\* the true shortest-path distances: a shortest path has at most N-1 edges
ShortestDistance == WithinHops(N - 1)

\* nodes with a directed path of at most k edges from source
RECURSIVE ReachedWithin(_)
ReachedWithin(k) ==
    IF k = 0 THEN {source}
    ELSE LET R == ReachedWithin(k - 1)
         IN R \cup {v \in Range(N) : \E u \in R : RealEdge(u, v)}

Reachable(v) == v \in ReachedWithin(N - 1)

\* sum of the edge weights along a node sequence
RECURSIVE PathWeight(_)
PathWeight(list) ==
    IF Len(list) < 2 THEN 0
    ELSE Weight(list[1], list[2]) + PathWeight(Tail(list))

\* the positions of the visit steps in the trace
VisitSteps == {k \in DOMAIN steps : steps[k].description[1] = "Visit node "}

\* ---- claims ---------------------------------------------------------------
\* C1: when dijkstra() finishes, the distance of every node reachable from the
\* source is the least total weight over all directed paths from the source.
C1_ShortestDistances ==
    pc = "done" =>
        \A v \in Range(N) : Reachable(v) => distances[v] = ShortestDistance[v]

\* C1 witness: a finished run in which a node's shortest path is cheaper than
\* the direct edge from the source to it.
C1_Witness ==
    /\ pc = "done"
    /\ \E v \in Range(N) : RealEdge(source, v) /\ distances[v] < Weight(source, v)

\* C2: for a target reachable from the source, get_path returns a list that
\* starts at the source, ends at the target, follows edges of the matrix, and
\* whose weights sum to get_distance(target).
C2_PathToTarget ==
    (pc \in {"returned", "end"} /\ target \in Range(N) /\ Reachable(target)) =>
        LET list == get_path_ret.list IN
        /\ ~get_path_ret.none
        /\ list # <<>>
        /\ list[1] = source
        /\ list[Len(list)] = target
        /\ \A k \in 1 .. Len(list) - 1 : RealEdge(list[k], list[k + 1])
        /\ PathWeight(list) = get_distance(target)

\* C2 witness: get_path returned a path of two edges to a target that also has
\* a direct edge from the source.
C2_Witness ==
    /\ pc = "end"
    /\ ~get_path_ret.none
    /\ Len(get_path_ret.list) = 3
    /\ RealEdge(source, target)

\* C3: when dijkstra() finishes, a node has a finite distance iff it is visited
\* iff a directed path of real edges leads to it from the source; every other
\* node has distance infinity and no predecessor; a predecessor is only ever
\* the tail of a real edge into the node.
C3_FiniteIffReachable ==
    pc = "done" =>
        \A v \in Range(N) :
            /\ (distances[v] < Inf) <=> (v \in visited)
            /\ (v \in visited) <=> Reachable(v)
            /\ ~Reachable(v) => (distances[v] = Inf /\ previous[v] = None)
            /\ previous[v] # None => RealEdge(previous[v], v)

\* C3 witness: a finished run that left unvisited a node with an edge into the
\* source and no edge back.
C3_Witness ==
    /\ pc = "done"
    /\ \E i \in Range(N) :
         RealEdge(i, source) /\ Weight(source, i) = 0 /\ i \notin visited

\* C4: for a target that is unreachable or outside [0, N), get_path returns
\* None and get_distance returns infinity.
C4_NoPath ==
    (pc \in {"returned", "end"} /\ (target \notin Range(N) \/ ~Reachable(target))) =>
        /\ get_path_ret = NonePath
        /\ pc = "end" => get_distance_ret = Inf

\* C4 witness: both queries answered for an in-range node that has an edge
\* into the source but cannot be reached from it.
C4_Witness ==
    /\ pc = "end"
    /\ target \in Range(N)
    /\ ~Reachable(target)
    /\ RealEdge(target, source)

\* C5: in every recorded step and in the final result the source has
\* distance 0 and no predecessor.
C5_SourceFixed ==
    /\ \A k \in DOMAIN steps :
         steps[k].distances[source] = 0 /\ steps[k].previous[source] = None
    /\ pc = "done" => (distances[source] = 0 /\ previous[source] = None)

\* C5 witness: a finished run that visited a node with an edge into the source.
C5_Witness ==
    /\ pc = "done"
    /\ \E v \in visited : RealEdge(v, source)

\* C6: a second call on the same matrix, source and labels records the same
\* steps as the first, position by position, and as many.
C6_SameSteps ==
    (first_steps # <<>> /\ pc # "start") =>
        /\ Len(steps) <= Len(first_steps)
        /\ \A k \in DOMAIN steps : steps[k] = first_steps[k]
        /\ pc = "done" => steps = first_steps

\* C6 witness: the second call finished a run that discarded a stale entry.
C6_Witness ==
    /\ first_steps # <<>>
    /\ pc = "done"
    /\ Len(steps) < step_number + 1

\* C7: at most N visit steps, no node visited twice, each visit step adds
\* exactly its node to the visited set of the step before, and popping an entry
\* of a visited node records no step.
C7_VisitInv ==
    /\ Cardinality(VisitSteps) <= N
    /\ \A k, l \in VisitSteps :
         steps[k].current_node = steps[l].current_node => k = l
    /\ \A k \in VisitSteps :
         /\ k > 1
         /\ steps[k].current_node \notin steps[k - 1].visited
         /\ steps[k].visited = steps[k - 1].visited \cup {steps[k].current_node}

C7_VisitOnce ==
    /\ []C7_VisitInv
    /\ [][(pc = "loop" /\ priority_queue # <<>> /\ priority_queue[1][2] \in visited)
            => steps' = steps]_vars

\* C7 witness: a stale entry has just been popped and discarded.
C7_Witness ==
    /\ pc = "loop"
    /\ steps # <<>>
    /\ step_number > steps[Len(steps)].step_number
    /\ Cardinality(VisitSteps) = N

\* C8: with an in-range source the call reaches the final step with an empty
\* queue, and the step counter stays below StepCap.
C8_Terminates ==
    /\ (pc = "start" /\ source \in Range(N)) ~> (pc = "done" /\ priority_queue = <<>>)
    /\ [](step_number < StepCap)

\* C8 witness: a finished run in which every entry of the matrix was relaxed.
C8_Witness ==
    /\ pc = "done"
    /\ priority_queue = <<>>
    /\ step_number = 2 * MaxEdges + 2

\* C9: with a source that is negative or >= N the call raises before it
\* initializes anything or records a step.
C9_OutOfRange ==
    (source < 0 \/ source >= N) =>
        /\ pc \in {"start", "raised"}
        /\ steps = <<>>
        /\ distances = <<>>
        /\ previous = <<>>
        /\ priority_queue = <<>>

\* C9 witness: the call on an empty matrix has raised.
C9_Witness == pc = "raised" /\ N = 0 /\ steps = <<>>

\* C10: get_path ends for every predecessor map and target, a map with a cycle
\* included.
C10_GetPathTerminates == (pc = "walk") ~> (pc = "returned")

\* C11: for every node i the neighbour list holds (j, matrix[i][j]) iff i # j and
\* matrix[i][j] is finite and > 0, in strictly ascending j and with nothing
\* else; so an edge i->j brings no edge j->i and the diagonal is ignored.
\* (The list depends on the matrix alone, which no action changes: it is looked
\* at where a call has ended.)
C11_AdjacencyList ==
    pc \in {"done", "raised"} =>
        LET adj == matrix_to_adjacency_list(adj_matrix) IN
        /\ DOMAIN adj = Range(N)
        /\ \A i \in Range(N) :
             /\ \A j \in Range(N) :
                  (\E k \in DOMAIN adj[i] : adj[i][k] = <<j, At(adj_matrix, i, j)>>)
                     <=> (i # j /\ At(adj_matrix, i, j) > 0 /\ At(adj_matrix, i, j) < Inf)
             /\ \A k \in DOMAIN adj[i] :
                  /\ adj[i][k][1] \in Range(N)
                  /\ adj[i][k][2] = At(adj_matrix, i, adj[i][k][1])
             /\ \A k \in 1 .. Len(adj[i]) - 1 : adj[i][k][1] < adj[i][k + 1][1]

\* C11 witness: a finished run on a matrix with a non-zero diagonal and an edge
\* i->j whose reverse entry is infinity: i lists j, j does not list i.
C11_Witness ==
    /\ pc = "done"
    /\ \E i, j \in Range(N) :
         /\ i # j
         /\ At(adj_matrix, i, i) > 0
         /\ At(adj_matrix, j, i) = Inf
         /\ \E k \in DOMAIN matrix_to_adjacency_list(adj_matrix)[i] :
              matrix_to_adjacency_list(adj_matrix)[i][k][1] = j
         /\ \A k \in DOMAIN matrix_to_adjacency_list(adj_matrix)[j] :
              matrix_to_adjacency_list(adj_matrix)[j][k][1] # i

\* the node names a description may show when labels are not in use
IndexNames == {ToString(v) : v \in Range(N)}

\* the violations of the candidate matrix, each with its place in the order of
\* the scan: a row of the wrong length at <<i, -1>>, a bad entry at <<i, j>>
WrongLengthRows == {i \in Range(Len(candidate)) : Len(candidate[i + 1]) # Len(candidate)}

Entries == {p \in Range(Len(candidate)) \X Range(MaxRows + 1) : p[2] < Len(candidate[p[1] + 1])}

NonNumericEntries == {p \in Entries : candidate[p[1] + 1][p[2] + 1].type = "str"}

NegativeEntries ==
    {p \in Entries : candidate[p[1] + 1][p[2] + 1].type # "str"
                      /\ candidate[p[1] + 1][p[2] + 1].v < 0}

\* <<i, j>> comes before <<k, l>> in row-major order
Before(p, q) == p[1] < q[1] \/ (p[1] = q[1] /\ p[2] <= q[2])

\* C12 as stated: of several violations the one reported is the first in the
\* order empty grid, any row of the wrong length, any non-numeric entry, any
\* negative entry.
C12_CheckOrder ==
    pc = "validated" =>
        validate_ret.message[1] =
            (IF candidate = <<>> THEN "Matrix is empty"
             ELSE IF WrongLengthRows # {} THEN "Row "
             ELSE IF NonNumericEntries # {} THEN "Invalid value at ["
             ELSE IF NegativeEntries # {} THEN "Negative weight at ["
             ELSE "Valid")

\* C12 amended: validate_matrix reports the first violation of its scan: the
\* empty grid, then row by row the row's wrong length and, in a row of the
\* right length, entry by entry a non-numeric or a negative entry; a violation
\* of an earlier row comes before every violation of a later row.
C12_ScanOrder ==
    pc = "validated" =>
        LET found == {<<i, -1>> : i \in WrongLengthRows}
                        \cup {p \in NonNumericEntries \cup NegativeEntries :
                                p[1] \notin WrongLengthRows}
            first == CHOOSE p \in found : \A q \in found : Before(p, q)
            val == candidate[first[1] + 1][first[2] + 1]
        IN validate_ret =
            (IF candidate = <<>> THEN MatrixIsEmpty
             ELSE IF found = {} THEN Valid
             ELSE IF first[2] = -1
                  THEN RowLength(first[1], Len(candidate[first[1] + 1]), Len(candidate))
             ELSE IF first \in NonNumericEntries
                  THEN InvalidValue(first[1], first[2], val)
             ELSE NegativeWeight(first[1], first[2], val))

\* C12 witness: a negative entry in row 0 and a row 1 of the wrong length,
\* reported as the negative entry.
C12_Witness ==
    /\ pc = "validated"
    /\ Len(candidate) = 2
    /\ <<0, 0>> \in NegativeEntries
    /\ 1 \in WrongLengthRows
    /\ validate_ret.message[1] = "Negative weight at ["

\* C13: validate_matrix returns valid iff the grid is non-empty, every row has
\* as many entries as there are rows, every entry is numeric and none is
\* negative (infinity included); otherwise a failure with a message.
C13_ValidIff ==
    pc = "validated" =>
        /\ validate_ret.ok <=>
              /\ candidate # <<>>
              /\ WrongLengthRows = {}
              /\ NonNumericEntries = {}
              /\ NegativeEntries = {}
        /\ validate_ret.ok => validate_ret = Valid
        /\ ~validate_ret.ok => (validate_ret.message # <<>> /\ validate_ret.message # Valid.message)

\* C13 witness: a 2 x 2 matrix with an infinite entry found valid.
C13_Witness ==
    /\ pc = "validated"
    /\ validate_ret.ok
    /\ Len(candidate) = 2
    /\ \E p \in Entries : candidate[p[1] + 1][p[2] + 1].v = Inf

\* the rows of tokens of the text, the places of the tokens and the token at a place
Rows == token_rows.rows

TokenPlaces == {p \in Range(Len(Rows)) \X Range(MaxRows) : p[2] < Len(Rows[p[1] + 1])}

TokenAt(p) == Rows[p[1] + 1][p[2] + 1]

\* as many tokens in every row as there are rows
SquareText == Rows # <<>> /\ \A r \in DOMAIN Rows : Len(Rows[r]) = Len(Rows)

\* the rows with another number of tokens than there are rows
RaggedRows == {i \in Range(Len(Rows)) : Len(Rows[i + 1]) # Len(Rows)}

\* every token a decimal number or a word for infinity
AllNumbers == \A p \in TokenPlaces : TokenAt(p).kind \in {"number", "word"}

NegativePlaces == {p \in TokenPlaces : TokenAt(p).kind = "number" /\ TokenAt(p).v < 0}

\* the matrix the text stands for
WrittenMatrix == [r \in DOMAIN Rows |-> [c \in DOMAIN Rows[r] |-> FloatValue(Rows[r][c].v)]]

\* C14: parse_matrix_string returns a matrix only if every row has as many
\* values as there are rows and validate_matrix accepts the matrix, otherwise
\* no matrix and a message; rows of a wrong length whose tokens all parse get
\* the parser's own not-square message for the first such row, and the
\* validator's row-length message is never returned.
C14_ParserSquare ==
    pc = "parsed" =>
        /\ ~parse_ret.none =>
              /\ parse_ret.matrix # <<>>
              /\ \A r \in DOMAIN parse_ret.matrix :
                    Len(parse_ret.matrix[r]) = Len(parse_ret.matrix)
              /\ validate_matrix(parse_ret.matrix) = Valid
              /\ parse_ret.message = <<"Success">>
        /\ parse_ret.none =>
              /\ parse_ret.matrix = <<>>
              /\ parse_ret.message # <<>>
              /\ parse_ret.message # <<"Success">>
        /\ RaggedRows # {} =>
              /\ parse_ret.none
              /\ parse_ret.message[1] \in {"Invalid number at row ", "Matrix is not square: row "}
              /\ parse_ret.message[1] # "Invalid number at row " =>
                    LET i == CHOOSE i \in RaggedRows : \A k \in RaggedRows : i <= k
                    IN parse_ret.message = NotSquare(i, Len(Rows[i + 1]), Len(Rows))
              /\ AllNumbers => parse_ret.message[1] = "Matrix is not square: row "
        /\ parse_ret.message[1] # RowLength(0, 0, 0).message[1]
        /\ \A i, j \in Range(MaxRows) :
              NotSquare(0, 0, 0)[1] \notin
                  {MatrixIsEmpty.message[1], RowLength(0, 0, 0).message[1],
                   InvalidValue(i, j, StrValue).message[1],
                   NegativeWeight(i, j, StrValue).message[1]}

\* C14 witness: a text with a negative number in row 1 and a row 2 of another
\* length, reported as not square.
C14_Witness ==
    /\ pc = "parsed"
    /\ <<0, 0>> \in NegativePlaces
    /\ 1 \in RaggedRows
    /\ 0 \notin RaggedRows
    /\ parse_ret.message[1] = "Matrix is not square: row "

\* C15 as stated: a text of comma-separated non-negative numbers in a square
\* gives back exactly that matrix, and every text that holds a negative number
\* fails with the message that names the row and column of a negative entry.
C15_NegativeNamed ==
    pc = "parsed" =>
        /\ (token_rows.style # "space" /\ SquareText /\ NegativePlaces = {}
              /\ \A p \in TokenPlaces : TokenAt(p).kind = "number")
              => parse_ret = Success(WrittenMatrix)
        /\ NegativePlaces # {} =>
              \E p \in NegativePlaces :
                  parse_ret = NoMatrix(NegativeWeight(p[1], p[2], FloatValue(TokenAt(p).v)).message)

\* C15 amended: a text of comma-separated non-negative numbers in a square
\* gives back exactly that matrix; a text whose tokens are all numbers, in a
\* square, with a negative number fails with the validator's message for the
\* first negative entry in row-major order, rows and columns counted from 0.
C15_SquareNumeric ==
    pc = "parsed" =>
        /\ (token_rows.style # "space" /\ SquareText /\ NegativePlaces = {}
              /\ \A p \in TokenPlaces : TokenAt(p).kind = "number")
              => parse_ret = Success(WrittenMatrix)
        /\ (SquareText /\ AllNumbers /\ NegativePlaces # {}) =>
              LET p == CHOOSE p \in NegativePlaces : \A q \in NegativePlaces : Before(p, q)
              IN parse_ret = NoMatrix(NegativeWeight(p[1], p[2], FloatValue(TokenAt(p).v)).message)

\* C15 witness: a 2 x 2 text of comma-separated numbers, negative from the
\* second entry on, rejected for that entry.
C15_Witness ==
    /\ pc = "parsed"
    /\ token_rows.style = "comma"
    /\ SquareText
    /\ Len(Rows) = 2
    /\ AllNumbers
    /\ NegativePlaces = {<<0, 1>>, <<1, 0>>, <<1, 1>>}
    /\ parse_ret.message[1] = "Negative weight at ["
    /\ parse_ret.message[2] = "0"
    /\ parse_ret.message[4] = "1"

\* C16: a token inf or infinity in any letter case, or the infinity glyph, is
\* read as positive infinity and never reported as an invalid number.
C16_InfinityTokens ==
    pc = "parsed" =>
        \A p \in TokenPlaces :
            TokenAt(p).kind \in {"word", "glyph"} =>
                /\ parse_ret.message # InvalidNumber(p[1], p[2], TokenAt(p).chars)
                /\ ~parse_ret.none => parse_ret.matrix[p[1] + 1][p[2] + 1] = FloatValue(Inf)

\* C17: with node_labels absent or of a length other than N, every node name in
\* every step description is the node's index as a string.
C17_IndexFallback ==
    (node_labels.absent \/ Len(node_labels.list) # N) =>
        \A k \in DOMAIN steps :
            LET d == steps[k].description IN
            /\ Len(d) = 3 => d[2] = ToString(source)
            /\ Len(d) = 5 => d[2] = ToString(steps[k].current_node)
            /\ Len(d) = 9 => (d[2] \in IndexNames /\ d[8] = ToString(steps[k].current_node))

\* C18: every step of the system either appends to the steps or leaves them
\* alone; a step recorded at position k stays exactly as recorded.
C18_AppendOnly ==
    [][/\ Len(steps') \in {Len(steps), Len(steps) + 1}
       /\ \A k \in DOMAIN steps : steps'[k] = steps[k]]_vars

\* C18 witness: a finished run whose first step still holds the initial state
\* although the live set, both maps and the queue have all changed since.
C18_Witness ==
    /\ pc = "done"
    /\ Len(steps) >= 4
    /\ steps[1].visited = {} /\ visited # {}
    /\ steps[1].distances # distances
    /\ steps[1].previous # previous
    /\ steps[1].priority_queue # priority_queue
    /\ steps[2].priority_queue = <<>>
    /\ steps[3].priority_queue # <<>>

\* the steps whose description is that of the initialization
InitSteps == {k \in DOMAIN steps : steps[k].description[1] = InitDescription[1]}

\* C19: once the call has initialized, the first step records distance 0 for
\* the source, infinity for the others, no predecessor, an empty visited set
\* and the queue <<(0, source)>>; it is the only initialization step.
C19_InitialStep ==
    (pc \notin {"start", "raised"}) =>
        /\ steps # <<>>
        /\ InitSteps = {1}
        /\ steps[1].step_number = 0
        /\ steps[1].current_node = source
        /\ steps[1].visited = {}
        /\ steps[1].priority_queue = <<(<<0, source>>)>>
        /\ \A v \in Range(N) :
             /\ steps[1].distances[v] = (IF v = source THEN 0 ELSE Inf)
             /\ steps[1].previous[v] = None
        /\ DOMAIN steps[1].distances = Range(N)
        /\ DOMAIN steps[1].previous = Range(N)

\* C19 witness: a finished run from a source other than node 0 that visited
\* every node of a matrix of the largest size.
C19_Witness ==
    /\ pc = "done"
    /\ N = MaxN
    /\ source # 0
    /\ visited = Range(N)
    /\ steps[1].distances[0] = Inf

\* the steps with no current node
FinalSteps == {k \in DOMAIN steps : steps[k].current_node = NoNode}

\* C20: a step with current node -1 is the last step, is recorded only with the
\* live queue empty, has an empty queue snapshot and the final maps; a finished
\* run has exactly one.
C20_FinishedStep ==
    /\ \A k \in FinalSteps :
         /\ k = Len(steps)
         /\ pc = "done"
         /\ priority_queue = <<>>
         /\ steps[k].priority_queue = <<>>
         /\ steps[k].distances = distances
         /\ steps[k].previous = previous
         /\ steps[k].description = FinalDescription
    /\ pc = "done" => FinalSteps = {Len(steps)}
    /\ pc # "done" => FinalSteps = {}

\* C20 witness: a finished run during which two entries were queued at once.
C20_Witness ==
    /\ pc = "done"
    /\ FinalSteps = {Len(steps)}
    /\ \E k \in DOMAIN steps : Len(steps[k].priority_queue) >= 2

\* the steps that record a relaxation
UpdateSteps == {k \in DOMAIN steps : steps[k].description[1] = "Update distance to "}

\* how often entry e occurs in a queue
Count(queue, e) == Cardinality({i \in DOMAIN queue : queue[i] = e})

\* queue `after` is queue `before` with exactly one more entry e
Gains(before, after, e) ==
    /\ Len(after) = Len(before) + 1
    /\ \A i \in DOMAIN after :
         Count(after, after[i]) = Count(before, after[i]) + (IF after[i] = e THEN 1 ELSE 0)
    /\ Count(after, e) = Count(before, e) + 1

\* the nodes whose distance or predecessor differs between steps k - 1 and k
ChangedAt(k) ==
    {v \in Range(N) : \/ steps[k].distances[v] # steps[k - 1].distances[v]
                      \/ steps[k].previous[v] # steps[k - 1].previous[v]}

C21_UpdateInv ==
    /\ \A k \in UpdateSteps :
         /\ k > 1
         /\ k - 1 \in VisitSteps \cup UpdateSteps
         /\ steps[k - 1].current_node = steps[k].current_node
         /\ steps[k].visited = steps[k - 1].visited
         /\ Cardinality(ChangedAt(k)) = 1
         /\ \A v \in ChangedAt(k) :
              LET u == steps[k].current_node IN
              /\ v \notin steps[k].visited
              /\ RealEdge(u, v)
              /\ steps[k].distances[v] = steps[k - 1].distances[u] + Weight(u, v)
              /\ steps[k].distances[v] < steps[k - 1].distances[v]
              /\ steps[k].previous[v] = u
              /\ Gains(steps[k - 1].priority_queue, steps[k].priority_queue,
                       <<steps[k].distances[v], v>>)
    /\ \A k \in VisitSteps : ChangedAt(k) = {}

\* C21: an update step differs from the step before it in the distance and
\* predecessor of exactly one node v, an unvisited out-neighbour of the same
\* current node u, with distance[u] + weight(u, v) < the old distance, the
\* predecessor u and one more queue entry (new distance, v); a visit step
\* changes no distance and no predecessor; and every change of the live maps
\* during the run appends exactly one update step.
C21_UpdateSteps ==
    /\ []C21_UpdateInv
    /\ [][(pc # "start" /\ (distances' # distances \/ previous' # previous))
            => /\ Len(steps') = Len(steps) + 1
               /\ steps'[Len(steps')].description[1] = "Update distance to "
               /\ steps'[Len(steps')].distances = distances'
               /\ steps'[Len(steps')].previous = previous']_vars

\* C21 witness: a finished run in which one visit was followed by two update
\* steps and a later update improved a distance that was already finite.
C21_Witness ==
    /\ pc = "done"
    /\ \E k \in UpdateSteps : k + 1 \in UpdateSteps
    /\ \E k \in UpdateSteps : \E v \in ChangedAt(k) : steps[k - 1].distances[v] < Inf

\* C22: the k-th recorded step, counted from 0, carries step_number k.
C22_Consecutive == \A k \in DOMAIN steps : steps[k].step_number = k - 1

\* C23: from one recorded step to the next no node's distance increases, and
\* every recorded distance is >= 0.
C23_NeverIncreases ==
    /\ \A k \in DOMAIN steps : \A v \in Range(N) : steps[k].distances[v] >= 0
    /\ \A k \in DOMAIN steps : \A v \in Range(N) :
         k > 1 => steps[k].distances[v] <= steps[k - 1].distances[v]
    /\ pc \notin {"start", "raised"} => \A v \in Range(N) : distances[v] >= 0

\* C23 witness: a finished run in which the distance of a node went down twice.
C23_Witness ==
    /\ pc = "done"
    /\ \E v \in Range(N) : \E k, l \in DOMAIN steps :
         /\ steps[k].distances[v] < Inf
         /\ steps[l].distances[v] < steps[k].distances[v]

\* C24: a node in the visited set of a step is in the visited set of every
\* later step, with the same distance and predecessor there, in the live maps
\* and in the final result.
C24_VisitedFrozen ==
    \A k \in DOMAIN steps : \A v \in steps[k].visited :
        /\ \A l \in DOMAIN steps :
             l > k => /\ v \in steps[l].visited
                      /\ steps[l].distances[v] = steps[k].distances[v]
                      /\ steps[l].previous[v] = steps[k].previous[v]
        /\ v \in visited
        /\ distances[v] = steps[k].distances[v]
        /\ previous[v] = steps[k].previous[v]

\* C24 witness: a finished run in which, after a node other than the source was
\* visited, a relaxation changed the maps.
C24_Witness ==
    /\ pc = "done"
    /\ \E k \in VisitSteps : \E l \in UpdateSteps :
         /\ steps[k].current_node # source
         /\ l > k
         /\ steps[k].distances # distances

\* the distance a visit step reports for the node it visits
VisitDistance(k) == steps[k].distances[steps[k].current_node]

\* C25: the distance of each visit step is >= that of every earlier visit step,
\* is the one its description shows, and is the node's final distance, the
\* least weight of a path from the source.
C25_VisitOrder ==
    /\ \A k, l \in VisitSteps : k < l => VisitDistance(k) <= VisitDistance(l)
    /\ \A k \in VisitSteps :
         /\ steps[k].description[4] = ToString(VisitDistance(k))
         /\ VisitDistance(k) = distances[steps[k].current_node]
    /\ pc = "done" =>
         \A k \in VisitSteps : VisitDistance(k) = ShortestDistance[steps[k].current_node]

\* C25 witness: a finished run whose visits have three different distances, the
\* last one of a node whose first tentative distance was larger.
C25_Witness ==
    /\ pc = "done"
    /\ \E k, l, m \in VisitSteps :
         /\ VisitDistance(k) < VisitDistance(l)
         /\ VisitDistance(l) < VisitDistance(m)
         /\ \E j \in DOMAIN steps :
              /\ steps[j].distances[steps[m].current_node] < Inf
              /\ steps[j].distances[steps[m].current_node] > VisitDistance(m)

\* C26: a pop that visits node v at distance d leaves no entry of an unvisited
\* node in the queue with a smaller distance, or with distance d and an index
\* below v.
C26_TieBreak ==
    [][(pc = "loop" /\ visited' # visited) =>
          /\ visited' = visited \cup {current_node'}
          /\ current_dist' = distances[current_node']
          /\ \A i \in DOMAIN priority_queue :
               priority_queue[i][2] \notin visited =>
                   \/ priority_queue[i][1] > current_dist'
                   \/ /\ priority_queue[i][1] = current_dist'
                      /\ priority_queue[i][2] >= current_node']_vars

\* C26 witness: node v has just been visited while the queue holds an entry of
\* the same distance for an unvisited node y > v that was pushed before the
\* entry of v.
C26_Witness ==
    /\ pc \in {"loop", "neighbors"}
    /\ Len(steps) \in VisitSteps
    /\ steps[Len(steps)].current_node = current_node
    /\ \E y \in Range(N) \ visited :
         /\ y > current_node
         /\ distances[y] = current_dist
         /\ \E i \in DOMAIN priority_queue : priority_queue[i] = <<current_dist, y>>
         /\ \E ky, kv \in UpdateSteps :
              /\ ky < kv
              /\ ChangedAt(ky) = {y}
              /\ steps[ky].distances[y] = current_dist
              /\ ChangedAt(kv) = {current_node}

\* following previous from node v ends at None after at most k nodes
RECURSIVE EndsWithin(_, _)
EndsWithin(v, k) ==
    IF v = None THEN TRUE
    ELSE IF k = 0 THEN FALSE
    ELSE EndsWithin(previous[v], k - 1)

C27_AcyclicInv ==
    pc \notin {"start", "raised"} =>
        \A v \in Range(N) :
            /\ previous[v] # None => (previous[v] \in visited /\ previous[v] # v)
            /\ EndsWithin(v, N)

\* C27: a predecessor is assigned only to an unvisited node and is a visited
\* node; following previous from any node passes at most N nodes, none twice,
\* before it reaches None.
C27_Acyclic ==
    /\ []C27_AcyclicInv
    /\ [][pc # "start" =>
            \A v \in Range(N) :
                previous'[v] # previous[v] =>
                    (v \notin visited /\ previous'[v] \in visited)]_vars

\* C27 witness: a finished run with a chain of three nodes, the last of which
\* had its predecessor replaced.
C27_Witness ==
    /\ pc = "done"
    /\ \E v \in Range(N) :
         /\ previous[v] # None
         /\ previous[previous[v]] # None
         /\ \E k \in DOMAIN steps :
              steps[k].previous[v] # None /\ steps[k].previous[v] # previous[v]

\* the entries of the queue snapshot of step k
SnapshotEntries(k) == {steps[k].priority_queue[i] : i \in DOMAIN steps[k].priority_queue}

\* C29 as stated: no entry of a step's queue snapshot refers to a node in that
\* step's visited set.
C29_NoVisitedEntry ==
    \A k \in DOMAIN steps : \A e \in SnapshotEntries(k) : e[2] \notin steps[k].visited

\* C29 amended: an entry (d, v) of a step's queue snapshot has d >= the
\* distance of v in that step; if v is in the step's visited set the entry is a
\* stale duplicate, d > the distance of v, and if v is not, v has an entry
\* with exactly its distance.
C29_StaleEntries ==
    \A k \in DOMAIN steps : \A e \in SnapshotEntries(k) :
        /\ e[2] \in Range(N)
        /\ e[1] >= steps[k].distances[e[2]]
        /\ e[2] \in steps[k].visited => e[1] > steps[k].distances[e[2]]
        /\ e[2] \notin steps[k].visited => <<steps[k].distances[e[2]], e[2]>> \in SnapshotEntries(k)

\* C29 witness: a visit step whose queue snapshot still holds an entry for the
\* node it visits.
C29_Witness ==
    \E k \in VisitSteps : \E e \in SnapshotEntries(k) :
        e[2] = steps[k].current_node /\ e[1] > steps[k].distances[e[2]]

\* C30: during the run every unvisited node with a finite distance has the
\* queue entry (its distance, the node), every queue entry (d, v) has
\* d >= the distance of v, and the run ends only with every node of finite
\* distance, and so every reachable node, visited.
C30_FrontierConsistent ==
    pc \in {"loop", "neighbors", "done"} =>
        /\ \A v \in Range(N) \ visited :
             distances[v] < Inf =>
                 \E i \in DOMAIN priority_queue : priority_queue[i] = <<distances[v], v>>
        /\ \A i \in DOMAIN priority_queue :
             /\ priority_queue[i][2] \in Range(N)
             /\ priority_queue[i][1] >= distances[priority_queue[i][2]]
        /\ pc = "done" =>
             \A v \in Range(N) : (distances[v] < Inf \/ Reachable(v)) => v \in visited

\* C30 witness: before a pop the queue holds two entries for one unvisited
\* node, the older with the larger distance.
C30_Witness ==
    /\ pc = "loop"
    /\ \E i, j \in DOMAIN priority_queue :
         /\ priority_queue[i][2] = priority_queue[j][2]
         /\ priority_queue[i][1] > priority_queue[j][1]
         /\ priority_queue[j][2] \notin visited

\* what a step holds besides its description
StepState(step) ==
    <<step.step_number, step.current_node, step.visited, step.distances, step.previous,
      step.priority_queue>>

\* C28: a second call on the same matrix and source with another label list
\* does not raise, records steps that agree with those of the first call,
\* position by position, in everything but the description, as many of them,
\* and returns the same final distances and predecessors.
C28_LabelsOnlyDescribe ==
    (first_steps # <<>> /\ pc # "start") =>
        /\ pc # "raised"
        /\ Len(steps) <= Len(first_steps)
        /\ \A k \in DOMAIN steps : StepState(steps[k]) = StepState(first_steps[k])
        /\ pc = "done" =>
             /\ Len(steps) = Len(first_steps)
             /\ distances = first_result.distances
             /\ previous = first_result.previous

\* C28 witness: the second call finished a run of at least five steps, all of
\* whose node names differ from those of the first call.
C28_Witness ==
    /\ first_steps # <<>>
    /\ pc = "done"
    /\ Len(steps) >= 5
    /\ \A k \in 1 .. Len(steps) - 1 : steps[k].description # first_steps[k].description

====
